---- MODULE Spec2Model ----
(***************************************************************************)
(* A model of jupyfmt (src/src/jupyfmt.py): an IPython extension that      *)
(* registers a "post_run_cell" callback which runs the source of the cell  *)
(* that just ran through black and pushes the formatted text back to the   *)
(* front end, either with set_next_input (JupyterLab) or with a delayed    *)
(* browser script (classic notebook).                                      *)
(*                                                                         *)
(* Texts (cell sources, command-line parts, JSON, script parameters) are   *)
(* tuples of one-character strings.                                        *)
(***************************************************************************)
EXTENDS Integers, Sequences, FiniteSets, TLC

VARIABLES
    eventsOf,   \* ipython.events: the event manager each kernel object holds
    callbacks,  \* per event manager: the list of "post_run_cell" callbacks
    inLen,      \* per kernel: len(ip.user_ns["In"])
    cells,      \* the classic front end's rendered cells, in notebook order
    pending,    \* scripts whose setTimeout has not fired yet, oldest first
    ext,        \* the last load_/unload_ipython_extension call and its result
    ev,         \* the step just taken, when it was a "post_run_cell" event
                \* or the firing of a script
    failed      \* per kernel: a handler has raised since the kernel started

vars == <<eventsOf, callbacks, inLen, cells, pending, ext, ev, failed>>

(***************************************************************************)
(* Bounds                                                                  *)
(***************************************************************************)
MaxCells == 2       \* cells the notebook may hold
MaxCount == 2       \* executions a kernel records before it is restarted
MaxPending == 1     \* scripts that may be waiting for their timeout

Kernels == {"k1", "k2"}
EventManagers == {"e1", "e2"}
NbKernel == "k1"    \* the kernel the modelled notebook is attached to

(***************************************************************************)
(* Front-end detection: is_lab_notebook                                    *)
(***************************************************************************)
Marker == <<"j", "u", "p", "y", "t", "e", "r", "-", "l", "a", "b">>

PartPython == <<"p", "y", "t", "h", "o", "n">>
PartJupyter == <<"j", "u", "p", "y", "t", "e", "r">>
PartLab == <<"l", "a", "b">>
PartLabPath == <<"/", "b", "i", "n", "/">> \o Marker
PartLabTwice == <<"j", "u", "p", "y", "t", "e", "r", "-">> \o Marker
PartLabApp == Marker \o <<"-", "x">>
PartNotebook ==
    <<"j", "u", "p", "y", "t", "e", "r", "-", "n", "o", "t", "e", "b", "o", "o", "k">>
PartLabUpper == <<"j", "u", "p", "y", "t", "e", "r", "-", "L", "a", "b">>

\* psutil.Process().parent().cmdline() for the parent processes considered
CmdLines ==
    { <<>>,
      <<PartPython>>,
      <<Marker>>,
      <<PartPython, PartLabPath>>,
      <<PartLabApp, PartPython>>,
      <<PartPython, PartLabTwice>>,
      <<PartJupyter, PartLab>>,
      <<PartPython, PartNotebook>>,
      <<PartLabUpper>> }

\* psutil.Process().parent(): None when the parent is gone
ParentProcs ==
    { [alive |-> TRUE, cmdline |-> c] : c \in CmdLines }
        \cup { [alive |-> FALSE, cmdline |-> <<>>] }

\* re.search(pattern, string) for a pattern of literal characters: the scan
\* tries every start position from the left
RECURSIVE SearchFrom(_, _, _)
SearchFrom(pattern, string, i) ==
    IF i + Len(pattern) - 1 > Len(string)
    THEN FALSE
    ELSE IF SubSeq(string, i, i + Len(pattern) - 1) = pattern
         THEN TRUE
         ELSE SearchFrom(pattern, string, i + 1)

\* re.match in place of re.search
MatchAtStart(pattern, string) ==
    /\ Len(pattern) <= Len(string)
    /\ SubSeq(string, 1, Len(pattern)) = pattern

re_search(pattern, string) == SearchFrom(pattern, string, 1)

\* any(re.search("jupyter-lab", part) for part in cmdline)
RECURSIVE AnyPart(_)
AnyPart(cmdline) ==
    IF cmdline = <<>>
    THEN FALSE
    ELSE re_search(Marker, Head(cmdline)) \/ AnyPart(Tail(cmdline))

\* is_lab_notebook: raises when there is no parent process to ask
is_lab_notebook(proc) ==
    IF proc.alive
    THEN [raised |-> FALSE, value |-> AnyPart(proc.cmdline)]
    ELSE [raised |-> TRUE, value |-> FALSE]

(***************************************************************************)
(* Formatter objects, their equality, and the host's callback list         *)
(***************************************************************************)
Lab == "BlackLabFormatter"
Classic == "BlackNotebookFormatter"
FormatterClasses == {Lab, Classic}

Formatter(cls, ip) == [cls |-> cls, ip |-> ip]

\* another extension's callback on the same event
ForeignCallback == [cls |-> "function", ip |-> "none"]
NoCallback == [cls |-> "None", ip |-> "none"]

IsFormatter(x) == x.cls \in FormatterClasses

\* an equality that also compares the strategy
EqSameClass(self, other) ==
    IsFormatter(other) /\ self.ip = other.ip /\ self.cls = other.cls

\* an equality that forgets the kernel
EqAnyFormatter(self, other) == IsFormatter(other)

\* BaseBlackFormatter.__eq__
FormatterEq(self, other) == IsFormatter(other) /\ self.ip = other.ip

\* Python's a == b for the objects in a callback list: a formatter's __eq__
\* decides whenever either side is a formatter, identity otherwise
PyEq(a, b) ==
    IF IsFormatter(a) THEN FormatterEq(a, b)
    ELSE IF IsFormatter(b) THEN FormatterEq(b, a)
    ELSE a = b

\* BaseBlackFormatter.__hash__
FormatterHash(self) == self.ip

\* function in callbacks
Contains(list, f) == \E i \in 1..Len(list) : PyEq(list[i], f)

\* list.remove(f): drops the first element equal to f
RemoveFirst(list, f) ==
    LET i == CHOOSE j \in 1..Len(list) :
                 /\ PyEq(list[j], f)
                 /\ \A h \in 1..(j - 1) : ~PyEq(list[h], f)
    IN  SubSeq(list, 1, i - 1) \o SubSeq(list, i + 1, Len(list))

FirstEqual(list, f) ==
    list[CHOOSE j \in 1..Len(list) :
             /\ PyEq(list[j], f)
             /\ \A h \in 1..(j - 1) : ~PyEq(list[h], f)]

\* events.register: adds the callback unless an equal one is present
Register(list, f) == IF Contains(list, f) THEN list ELSE Append(list, f)

\* _construct_formatter
ConstructFormatter(ipython, proc) ==
    LET lab == is_lab_notebook(proc)
    IN  IF lab.raised
        THEN [raised |-> TRUE, value |-> NoCallback]
        ELSE [raised |-> FALSE,
              value |-> IF lab.value THEN Formatter(Lab, ipython)
                                     ELSE Formatter(Classic, ipython)]

NoExt ==
    [op |-> "none", ip |-> "none", proc |-> [alive |-> FALSE, cmdline |-> <<>>],
     made |-> NoCallback, result |-> "none", added |-> FALSE,
     removed |-> NoCallback]

\* load_ipython_extension(ipython), the parent process being proc: the
\* callback lists after the call, and what the call did
load_ipython_extension(ipython, proc) ==
    LET made == ConstructFormatter(ipython, proc)
        e == eventsOf[ipython]
        after == Register(callbacks[e], made.value)
    IN  [callbacks |-> IF made.raised THEN callbacks
                       ELSE [callbacks EXCEPT ![e] = after],
         call |-> [op |-> "load", ip |-> ipython, proc |-> proc,
                   made |-> made.value,
                   result |-> IF made.raised THEN "raised" ELSE "returned",
                   added |-> ~made.raised /\ after # callbacks[e],
                   removed |-> NoCallback]]

\* unload_ipython_extension(ipython), the parent process being proc;
\* events.unregister raises ValueError when no equal callback is registered
unload_ipython_extension(ipython, proc) ==
    LET made == ConstructFormatter(ipython, proc)
        e == eventsOf[ipython]
        found == ~made.raised /\ Contains(callbacks[e], made.value)
    IN  [callbacks |-> IF found
                       THEN [callbacks EXCEPT ![e] = RemoveFirst(@, made.value)]
                       ELSE callbacks,
         call |-> [op |-> "unload", ip |-> ipython, proc |-> proc,
                   made |-> made.value,
                   result |-> IF found THEN "returned" ELSE "raised",
                   added |-> FALSE,
                   removed |-> IF found THEN FirstEqual(callbacks[e], made.value)
                                        ELSE NoCallback]]

(***************************************************************************)
(* Cell sources and black.format_cell                                      *)
(***************************************************************************)
TextX == <<"x">>
TextCall == <<"(">>
TextDouble == <<"\"", "\"">>
TextSingle == <<"'", "'">>
TextDoubleSp == <<"\"", "\"", " ">>
TextBlank == <<" ">>

\* the cell sources considered
Texts == {<<>>, TextBlank, TextX, TextCall, TextDouble, TextSingle, TextDoubleSp}

IsBlank(src) == \A i \in 1..Len(src) : src[i] = " "

RECURSIVE RStrip(_)
RStrip(src) ==
    IF src # <<>> /\ src[Len(src)] = " "
    THEN RStrip(SubSeq(src, 1, Len(src) - 1))
    ELSE src

\* black prefers double quotes
PreferDouble(src) == [i \in 1..Len(src) |-> IF src[i] = "'" THEN "\"" ELSE src[i]]

\* black.format_cell(src, fast=False, mode=FileMode()): a blank cell and a cell
\* already formatted raise NothingChanged, source that does not parse raises
\* InvalidInput, anything else is returned reformatted
format_cell(src) ==
    IF IsBlank(src)
    THEN [kind |-> "NothingChanged", text |-> <<>>]
    ELSE IF \E i \in 1..Len(src) : src[i] = "("
    THEN [kind |-> "InvalidInput", text |-> <<>>]
    ELSE LET dst == PreferDouble(RStrip(src))
         IN  IF dst = src
             THEN [kind |-> "NothingChanged", text |-> <<>>]
             ELSE [kind |-> "returned", text |-> dst]

(***************************************************************************)
(* The script template's three parameters                                  *)
(***************************************************************************)
Digits == <<"0", "1", "2", "3", "4", "5", "6", "7", "8", "9">>

\* "{cell_id}".format(cell_id=n) for n >= 0
RECURSIVE IntStr(_)
IntStr(n) ==
    IF n < 10
    THEN <<Digits[n + 1]>>
    ELSE IntStr(n \div 10) \o <<Digits[(n % 10) + 1]>>

DigitValue(c) == (CHOOSE d \in 1..10 : Digits[d] = c) - 1

\* the browser's reading of a decimal literal
RECURSIVE JsNumber(_)
JsNumber(s) ==
    IF Len(s) = 1
    THEN DigitValue(s[1])
    ELSE 10 * JsNumber(SubSeq(s, 1, Len(s) - 1)) + DigitValue(s[Len(s)])

RECURSIVE JsonEscape(_)
JsonEscape(text) ==
    IF text = <<>>
    THEN <<>>
    ELSE (IF Head(text) \in {"\"", "\\"}
          THEN <<"\\", Head(text)>>
          ELSE <<Head(text)>>) \o JsonEscape(Tail(text))

\* json.dumps(text)
json_dumps(text) == <<"\"">> \o JsonEscape(text) \o <<"\"">>

RECURSIVE JsUnescape(_)
JsUnescape(s) ==
    IF s = <<>>
    THEN <<>>
    ELSE IF Head(s) = "\\"
         THEN <<s[2]>> \o JsUnescape(SubSeq(s, 3, Len(s)))
         ELSE <<Head(s)>> \o JsUnescape(Tail(s))

\* the browser's reading of a double-quoted string literal
JsString(lit) == JsUnescape(SubSeq(lit, 2, Len(lit) - 1))

\* js_code: the template with its three parameters filled in
JsCode(cell_id, raw_cell, fmt_cell) ==
    [cell_id |-> IntStr(cell_id),
     raw_cell |-> json_dumps(raw_cell),
     fmt_cell |-> json_dumps(fmt_cell)]

(***************************************************************************)
(* The handler and its two strategies                                      *)
(***************************************************************************)
\* BlackLabFormatter._set_cell
LabSetCell(self, cell_id, raw_cell, fmt_cell) ==
    <<[api |-> "set_next_input", text |-> fmt_cell, replace |-> TRUE,
       js |-> JsCode(0, <<>>, <<>>)]>>

\* BlackNotebookFormatter._set_cell
NotebookSetCell(self, cell_id, raw_cell, fmt_cell) ==
    <<[api |-> "display", text |-> <<>>, replace |-> FALSE,
       js |-> JsCode(cell_id, raw_cell, fmt_cell)]>>

SetCell(self, cell_id, raw_cell, fmt_cell) ==
    IF self.cls = Lab
    THEN LabSetCell(self, cell_id, raw_cell, fmt_cell)
    ELSE NotebookSetCell(self, cell_id, raw_cell, fmt_cell)

HandlerResult(self, cell_id, outcome, formats, set_cell, api) ==
    [self |-> self, cell_id |-> cell_id, outcome |-> outcome,
     formats |-> formats, set_cell |-> set_cell, api |-> api]

\* a handler taking len(In) itself for the ordinal
CallLenAsOrdinal(self, raw_cell, in_len) ==
    LET cell_id == in_len
        fmt == format_cell(raw_cell)
    IN  IF cell_id = 0
        THEN HandlerResult(self, cell_id, "returned", 0, <<>>, <<>>)
        ELSE IF fmt.kind = "NothingChanged"
        THEN HandlerResult(self, cell_id, "returned", 1, <<>>, <<>>)
        ELSE IF fmt.kind # "returned"
        THEN HandlerResult(self, cell_id, "raised", 1, <<>>, <<>>)
        ELSE HandlerResult(self, cell_id, "returned", 1,
                 <<[cell_id |-> cell_id, raw_cell |-> raw_cell,
                    fmt_cell |-> fmt.text]>>,
                 SetCell(self, cell_id, raw_cell, fmt.text))

\* a handler without its except clause
CallNoExcept(self, raw_cell, in_len) ==
    LET cell_id == in_len - 1
        fmt == format_cell(raw_cell)
    IN  IF cell_id = 0
        THEN HandlerResult(self, cell_id, "returned", 0, <<>>, <<>>)
        ELSE IF fmt.kind # "returned"
        THEN HandlerResult(self, cell_id, "raised", 1, <<>>, <<>>)
        ELSE HandlerResult(self, cell_id, "returned", 1,
                 <<[cell_id |-> cell_id, raw_cell |-> raw_cell,
                    fmt_cell |-> fmt.text]>>,
                 SetCell(self, cell_id, raw_cell, fmt.text))

\* a handler without its test for the first input
CallNoFirstCheck(self, raw_cell, in_len) ==
    LET cell_id == in_len - 1
        fmt == format_cell(raw_cell)
    IN  IF fmt.kind = "NothingChanged"
        THEN HandlerResult(self, cell_id, "returned", 1, <<>>, <<>>)
        ELSE IF fmt.kind # "returned"
        THEN HandlerResult(self, cell_id, "raised", 1, <<>>, <<>>)
        ELSE HandlerResult(self, cell_id, "returned", 1,
                 <<[cell_id |-> cell_id, raw_cell |-> raw_cell,
                    fmt_cell |-> fmt.text]>>,
                 SetCell(self, cell_id, raw_cell, fmt.text))

\* a handler whose except clause catches every exception
CallSwallowAll(self, raw_cell, in_len) ==
    LET cell_id == in_len - 1
        fmt == format_cell(raw_cell)
    IN  IF cell_id = 0
        THEN HandlerResult(self, cell_id, "returned", 0, <<>>, <<>>)
        ELSE IF fmt.kind # "returned"
        THEN HandlerResult(self, cell_id, "returned", 1, <<>>, <<>>)
        ELSE HandlerResult(self, cell_id, "returned", 1,
                 <<[cell_id |-> cell_id, raw_cell |-> raw_cell,
                    fmt_cell |-> fmt.text]>>,
                 SetCell(self, cell_id, raw_cell, fmt.text))

\* BaseBlackFormatter.__call__(result), result.info.raw_cell being raw_cell and
\* len(self.ip.user_ns["In"]) being in_len
Call(self, raw_cell, in_len) ==
    LET cell_id == in_len - 1
        fmt == format_cell(raw_cell)
    IN  IF cell_id = 0
        THEN HandlerResult(self, cell_id, "returned", 0, <<>>, <<>>)
        ELSE IF fmt.kind = "NothingChanged"
        THEN HandlerResult(self, cell_id, "returned", 1, <<>>, <<>>)
        ELSE IF fmt.kind # "returned"
        THEN HandlerResult(self, cell_id, "raised", 1, <<>>, <<>>)
        ELSE HandlerResult(self, cell_id, "returned", 1,
                 <<[cell_id |-> cell_id, raw_cell |-> raw_cell,
                    fmt_cell |-> fmt.text]>>,
                 SetCell(self, cell_id, raw_cell, fmt.text))

\* events.trigger("post_run_cell", result): every registered callback is
\* called in turn, and a callback that raises is reported and passed over
RECURSIVE Trigger(_, _, _)
Trigger(list, raw_cell, lens) ==
    IF list = <<>>
    THEN <<>>
    ELSE (IF IsFormatter(Head(list))
          THEN <<Call(Head(list), raw_cell, lens[Head(list).ip])>>
          ELSE <<>>) \o Trigger(Tail(list), raw_cell, lens)

RECURSIVE Displayed(_)
Displayed(handlers) ==
    IF handlers = <<>>
    THEN <<>>
    ELSE LET api == Head(handlers).api
         IN  (IF api # <<>> /\ api[1].api = "display" THEN <<api[1].js>> ELSE <<>>)
                 \o Displayed(Tail(handlers))

\* what the handlers of an event did, in one word
Outcome(e) ==
    IF e.op # "event" \/ e.handlers = <<>> THEN "none"
    ELSE IF \E i \in 1..Len(e.handlers) : e.handlers[i].outcome = "raised"
    THEN "raised"
    ELSE IF \E i \in 1..Len(e.handlers) : e.handlers[i].set_cell # <<>>
    THEN "pushed"
    ELSE "skipped"

(***************************************************************************)
(* The classic front end                                                   *)
(***************************************************************************)
NoPrompt == <<>>
Cell(text, prompt) == [text |-> text, prompt |-> prompt]

\* cell.input_prompt_number == n, the prompt being null until the cell has run
JsLooseEq(prompt, n) == prompt # NoPrompt /\ prompt[1] = n

\* the loop without its break, taking every cell that passes both tests
RECURSIVE ScanAll(_, _, _, _, _)
ScanAll(nbb_cells, i, id, unformatted, formatted) ==
    IF i > Len(nbb_cells)
    THEN nbb_cells
    ELSE IF JsLooseEq(nbb_cells[i].prompt, id) /\ nbb_cells[i].text = unformatted
         THEN ScanAll([nbb_cells EXCEPT ![i].text = formatted], i + 1, id,
                      unformatted, formatted)
         ELSE ScanAll(nbb_cells, i + 1, id, unformatted, formatted)

\* the loop without its comparison of texts
RECURSIVE ScanNoTextCheck(_, _, _, _, _)
ScanNoTextCheck(nbb_cells, i, id, unformatted, formatted) ==
    IF i > Len(nbb_cells)
    THEN nbb_cells
    ELSE IF JsLooseEq(nbb_cells[i].prompt, id)
         THEN [nbb_cells EXCEPT ![i].text = formatted]
         ELSE ScanNoTextCheck(nbb_cells, i + 1, id, unformatted, formatted)

\* the loop of the script: it stops at the first cell showing the ordinal
RECURSIVE ScriptLoop(_, _, _, _, _)
ScriptLoop(nbb_cells, i, id, unformatted, formatted) ==
    IF i > Len(nbb_cells)
    THEN nbb_cells
    ELSE IF JsLooseEq(nbb_cells[i].prompt, id)
         THEN IF nbb_cells[i].text = unformatted
              THEN [nbb_cells EXCEPT ![i].text = formatted]
              ELSE nbb_cells
         ELSE ScriptLoop(nbb_cells, i + 1, id, unformatted, formatted)

RunScript(js, nbb_cells) ==
    ScriptLoop(nbb_cells, 1, JsNumber(js.cell_id), JsString(js.raw_cell),
               JsString(js.fmt_cell))

NoEvent ==
    [op |-> "none", ip |-> "none", raw |-> <<>>, handlers |-> <<>>,
     js |-> JsCode(0, <<>>, <<>>), changed |-> {}]

Event(ip, raw, handlers) ==
    [op |-> "event", ip |-> ip, raw |-> raw, handlers |-> handlers,
     js |-> JsCode(0, <<>>, <<>>), changed |-> {}]

Fired(js, changed) ==
    [op |-> "fire", ip |-> "none", raw |-> <<>>, handlers |-> <<>>,
     js |-> js, changed |-> changed]

(***************************************************************************)
(* Loading and unloading the extension on kernels that may share an event  *)
(* manager                                                                 *)
(***************************************************************************)
Load ==
    \E k \in Kernels, proc \in ParentProcs :
        LET done == load_ipython_extension(k, proc)
        IN  /\ callbacks' = done.callbacks
            /\ ext' = done.call
            /\ UNCHANGED <<eventsOf, inLen, cells, pending, ev, failed>>

Unload ==
    \E k \in Kernels, proc \in ParentProcs :
        LET done == unload_ipython_extension(k, proc)
        IN  /\ callbacks' = done.callbacks
            /\ ext' = done.call
            /\ UNCHANGED <<eventsOf, inLen, cells, pending, ev, failed>>

\* another extension registers its own callback with the host
RegisterForeign ==
    \E e \in EventManagers :
        /\ callbacks' = [callbacks EXCEPT ![e] = Register(@, ForeignCallback)]
        /\ callbacks' # callbacks
        /\ ext' = NoExt
        /\ UNCHANGED <<eventsOf, inLen, cells, pending, ev, failed>>

InitReg ==
    /\ eventsOf \in [Kernels -> EventManagers]
    /\ callbacks = [e \in EventManagers |-> <<>>]
    /\ inLen = [k \in Kernels |-> 1]
    /\ cells = <<>>
    /\ pending = <<>>
    /\ ext = NoExt
    /\ ev = NoEvent
    /\ failed = [k \in Kernels |-> FALSE]

NextReg == Load \/ Unload \/ RegisterForeign

SpecReg == InitReg /\ [][NextReg]_vars

(***************************************************************************)
(* One kernel running cells                                                *)
(***************************************************************************)
LabProc == [alive |-> TRUE, cmdline |-> <<PartPython, PartLabPath>>]
ClassicProc == [alive |-> TRUE, cmdline |-> <<PartPython, PartNotebook>>]
NoProc == [alive |-> FALSE, cmdline |-> <<>>]

\* the host runs raw_cell on kernel k and then fires "post_run_cell"; blank
\* source is not recorded in the input history
PostRunCell(k, raw_cell, store_history) ==
    LET stored == store_history /\ ~IsBlank(raw_cell)
        lens == [inLen EXCEPT ![k] = IF stored THEN @ + 1 ELSE @]
        handlers == Trigger(callbacks[eventsOf[k]], raw_cell, lens)
    IN  /\ inLen' = lens
        /\ ev' = Event(k, raw_cell, handlers)
        /\ failed' = [failed EXCEPT ![k] = @ \/ Outcome(ev') = "raised"]

LoadKernel ==
    \E proc \in {LabProc, ClassicProc, NoProc} :
        /\ callbacks' = load_ipython_extension(NbKernel, proc).callbacks
        /\ ev' = NoEvent
        /\ UNCHANGED <<eventsOf, inLen, cells, pending, ext, failed>>

UnloadKernel ==
    \E proc \in {LabProc, ClassicProc, NoProc} :
        /\ callbacks' = unload_ipython_extension(NbKernel, proc).callbacks
        /\ ev' = NoEvent
        /\ UNCHANGED <<eventsOf, inLen, cells, pending, ext, failed>>

\* another extension registers its own callback on the kernel's event
RegisterOther ==
    /\ callbacks' = [callbacks EXCEPT ![eventsOf[NbKernel]] =
                         Register(@, ForeignCallback)]
    /\ callbacks' # callbacks
    /\ ev' = NoEvent
    /\ UNCHANGED <<eventsOf, inLen, cells, pending, ext, failed>>

\* a client of the kernel sends an execute request
ExecuteRequest ==
    \E raw_cell \in Texts, store_history \in BOOLEAN :
        /\ inLen[NbKernel] <= MaxCount
        /\ PostRunCell(NbKernel, raw_cell, store_history)
        /\ UNCHANGED <<eventsOf, callbacks, cells, pending, ext>>

\* the kernel is restarted: a new process with an empty input history and no
\* extension loaded
RestartKernel ==
    /\ inLen[NbKernel] > 1
    /\ inLen' = [inLen EXCEPT ![NbKernel] = 1]
    /\ callbacks' = [callbacks EXCEPT ![eventsOf[NbKernel]] = <<>>]
    /\ failed' = [failed EXCEPT ![NbKernel] = FALSE]
    /\ ev' = NoEvent
    /\ UNCHANGED <<eventsOf, cells, pending, ext>>

InitKernel ==
    /\ eventsOf = [k \in Kernels |-> IF k = NbKernel THEN "e1" ELSE "e2"]
    /\ callbacks = [e \in EventManagers |-> <<>>]
    /\ inLen = [k \in Kernels |-> 1]
    /\ cells = <<>>
    /\ pending = <<>>
    /\ ext = NoExt
    /\ ev = NoEvent
    /\ failed = [k \in Kernels |-> FALSE]

NextKernel ==
    \/ LoadKernel
    \/ UnloadKernel
    \/ RegisterOther
    \/ ExecuteRequest
    \/ RestartKernel

SpecKernel == InitKernel /\ [][NextKernel]_vars

(***************************************************************************)
(* A classic notebook on one kernel                                        *)
(***************************************************************************)
\* the texts the user types
NbTexts == {<<>>, TextSingle, TextDouble, TextCall}

\* the extension is loaded in the notebook's kernel
LoadNb ==
    /\ callbacks' = load_ipython_extension(NbKernel, ClassicProc).callbacks
    /\ callbacks' # callbacks
    /\ ev' = NoEvent
    /\ UNCHANGED <<eventsOf, inLen, cells, pending, ext, failed>>

\* the user runs cell i (the front end does not send a blank cell); the
\* script a handler displays is scheduled by the browser, and the reply sets
\* the cell's prompt number
RunCell ==
    \E i \in 1..Len(cells) :
        LET raw_cell == cells[i].text
            lens == [inLen EXCEPT ![NbKernel] = @ + 1]
            handlers == Trigger(callbacks[eventsOf[NbKernel]], raw_cell, lens)
        IN  /\ ~IsBlank(raw_cell)
            /\ inLen[NbKernel] <= MaxCount
            /\ inLen' = lens
            /\ pending' = pending \o Displayed(handlers)
            /\ Len(pending') <= MaxPending
            /\ cells' = [cells EXCEPT ![i].prompt = <<lens[NbKernel] - 1>>]
            /\ ev' = NoEvent
            /\ UNCHANGED <<eventsOf, callbacks, ext, failed>>

\* the timeout of the oldest pending script expires
Fire ==
    /\ pending # <<>>
    /\ cells' = RunScript(Head(pending), cells)
    /\ pending' = Tail(pending)
    /\ ev' = Fired(Head(pending), {i \in 1..Len(cells) : cells'[i] # cells[i]})
    /\ UNCHANGED <<eventsOf, callbacks, inLen, ext, failed>>

\* the user types in cell i
EditCell ==
    \E i \in 1..Len(cells), text \in NbTexts :
        /\ text # cells[i].text
        /\ cells' = [cells EXCEPT ![i].text = text]
        /\ ev' = NoEvent
        /\ UNCHANGED <<eventsOf, callbacks, inLen, pending, ext, failed>>

\* the user inserts an empty cell
InsertCell ==
    \E p \in 0..Len(cells) :
        /\ Len(cells) < MaxCells
        /\ cells' = SubSeq(cells, 1, p) \o <<Cell(<<>>, NoPrompt)>>
                        \o SubSeq(cells, p + 1, Len(cells))
        /\ ev' = NoEvent
        /\ UNCHANGED <<eventsOf, callbacks, inLen, pending, ext, failed>>

\* the user restarts the notebook's kernel; the page and its timers stay
RestartNb ==
    /\ RestartKernel

Init ==
    /\ eventsOf = [k \in Kernels |-> IF k = NbKernel THEN "e1" ELSE "e2"]
    /\ callbacks = [e \in EventManagers |-> <<>>]
    /\ inLen = [k \in Kernels |-> 1]
    /\ cells = <<Cell(<<>>, NoPrompt)>>
    /\ pending = <<>>
    /\ ext = NoExt
    /\ ev = NoEvent
    /\ failed = [k \in Kernels |-> FALSE]

Next ==
    \/ LoadNb
    \/ RunCell
    \/ Fire
    \/ EditCell
    \/ InsertCell
    \/ RestartNb

Spec == Init /\ [][Next]_vars

(***************************************************************************)
(* Properties                                                              *)
(***************************************************************************)
\* some element of the command line contains the marker
HasMarker(cmdline) ==
    \E p \in 1..Len(cmdline) :
        \E i \in 1..Len(cmdline[p]) :
            /\ i + Len(Marker) - 1 <= Len(cmdline[p])
            /\ \A j \in 1..Len(Marker) : cmdline[p][i + j - 1] = Marker[j]

\* the formatters bound to kernel k in a callback list
BoundTo(list, k) == {i \in 1..Len(list) : IsFormatter(list[i]) /\ list[i].ip = k}

\* a callback list without the formatters bound to kernel k
Others(list, k) == SelectSeq(list, LAMBDA c : ~(IsFormatter(c) /\ c.ip = k))

AllFormatters == {Formatter(c, k) : c \in FormatterClasses, k \in Kernels}

\* the handler results of the last event
Handlers == {ev.handlers[i] : i \in 1..Len(ev.handlers)}

\* the ordinal a handler computes: the length of its kernel's In, minus 1
Ordinal(h) == inLen[h.self.ip] - 1

NoPush(h) == h.set_cell = <<>> /\ h.api = <<>>

\* C1: a handler invocation whose ordinal (len(In) - 1) is not 0 and whose
\* formatter returns a text different from the raw source makes exactly one
\* _set_cell call, with that ordinal, the raw source and the formatted text;
\* the lab strategy turns it into one set_next_input(formatted, replace=True),
\* the classic strategy into one displayed script whose three parameters read
\* back as that ordinal, raw source and formatted text.
C1_ExactlyOnePushBack ==
    ev.op = "event" =>
        \A h \in Handlers :
            LET fmt == format_cell(ev.raw)
            IN  (Ordinal(h) # 0 /\ fmt.kind = "returned" /\ fmt.text # ev.raw) =>
                    /\ h.outcome = "returned"
                    /\ h.set_cell = <<[cell_id |-> Ordinal(h), raw_cell |-> ev.raw,
                                       fmt_cell |-> fmt.text]>>
                    /\ Len(h.api) = 1
                    /\ h.self.cls = Lab =>
                           /\ h.api[1].api = "set_next_input"
                           /\ h.api[1].text = fmt.text
                           /\ h.api[1].replace
                    /\ h.self.cls = Classic =>
                           /\ h.api[1].api = "display"
                           /\ JsNumber(h.api[1].js.cell_id) = Ordinal(h)
                           /\ JsString(h.api[1].js.raw_cell) = ev.raw
                           /\ JsString(h.api[1].js.fmt_cell) = fmt.text

C1_Witness ==
    /\ ev.op = "event"
    /\ ev.raw = TextDoubleSp
    /\ \E h \in Handlers :
           /\ h.self.cls = Classic
           /\ Ordinal(h) = 2
           /\ Len(h.api) = 1
           /\ JsString(h.api[1].js.fmt_cell) = TextDouble

\* C2: when the formatter reports NothingChanged the handler returns normally
\* and pushes nothing back; an invoked formatter's other exception is not
\* swallowed.
C2_NothingChangedSwallowed ==
    ev.op = "event" =>
        \A h \in Handlers :
            LET fmt == format_cell(ev.raw)
            IN  /\ fmt.kind = "NothingChanged" => h.outcome = "returned" /\ NoPush(h)
                /\ (Ordinal(h) # 0 /\ fmt.kind \notin {"NothingChanged", "returned"})
                       => h.outcome = "raised"

C2_Witness ==
    /\ ev.op = "event"
    /\ ev.raw = TextDouble
    /\ \E h \in Handlers :
           Ordinal(h) # 0 /\ h.formats = 1 /\ h.outcome = "returned" /\ NoPush(h)

\* C3: when the input history holds only its first entry the handler returns
\* without calling the formatter and without pushing anything back, whatever
\* the raw source.
C3_FirstInputNoOp ==
    ev.op = "event" =>
        \A h \in Handlers :
            inLen[h.self.ip] = 1 =>
                h.outcome = "returned" /\ h.formats = 0 /\ NoPush(h)

C3_Witness ==
    /\ ev.op = "event"
    /\ ev.raw = TextCall
    /\ \E h \in Handlers : inLen[h.self.ip] = 1 /\ h.outcome = "returned"

\* C4: every callback list holds at most one formatter per kernel; after a
\* load that returned exactly one is registered for its kernel, after an
\* unload that returned none; formatters are equal, and hash alike, exactly
\* when they are bound to the same kernel.
C4_IdempotentRegistration ==
    /\ \A e \in EventManagers, k \in Kernels :
           Cardinality(BoundTo(callbacks[e], k)) <= 1
    /\ (ext.op = "load" /\ ext.result = "returned") =>
           Cardinality(BoundTo(callbacks[eventsOf[ext.ip]], ext.ip)) = 1
    /\ (ext.op = "unload" /\ ext.result = "returned") =>
           BoundTo(callbacks[eventsOf[ext.ip]], ext.ip) = {}
    /\ \A a \in AllFormatters, b \in AllFormatters :
           /\ FormatterEq(a, b) <=> a.ip = b.ip
           /\ (FormatterHash(a) = FormatterHash(b)) <=> a.ip = b.ip

C4_Witness ==
    /\ ext.op = "load"
    /\ ext.result = "returned"
    /\ ~ext.added
    /\ \E i \in BoundTo(callbacks[eventsOf[ext.ip]], ext.ip) :
           callbacks[eventsOf[ext.ip]][i].cls # ext.made.cls

\* C5: a formatter exception other than NothingChanged leaves the handler
\* raised with nothing pushed back; an event leaves the callback lists as they
\* were; and after a handler has raised, every later event on that kernel is
\* handled as by a handler that never failed.
C5_FailureIsPerCell ==
    /\ [](ev.op = "event" =>
              \A h \in Handlers :
                  (Ordinal(h) # 0 /\ format_cell(ev.raw).kind = "InvalidInput")
                      => h.outcome = "raised" /\ NoPush(h))
    /\ [][ev'.op = "event" => callbacks' = callbacks]_vars
    /\ [][(ev'.op = "event" /\ failed[ev'.ip]) =>
              /\ Len(ev'.handlers) = Cardinality(BoundTo(callbacks[eventsOf[ev'.ip]], ev'.ip))
              /\ \A i \in 1..Len(ev'.handlers) :
                     LET h == ev'.handlers[i]
                         fmt == format_cell(ev'.raw)
                         ordinal == inLen'[h.self.ip] - 1
                     IN  /\ h.outcome = "raised" <=>
                                (ordinal # 0 /\ fmt.kind = "InvalidInput")
                         /\ Len(h.set_cell) = Len(h.api)
                         /\ Len(h.api) =
                                IF ordinal # 0 /\ fmt.kind = "returned" THEN 1 ELSE 0]_vars

C5_Witness ==
    /\ ev.op = "event"
    /\ failed[ev.ip]
    /\ Outcome(ev) = "pushed"

\* C6: the formatter load_ipython_extension constructs and registers is the
\* lab strategy exactly when some element of the parent's command line
\* contains "jupyter-lab", and the classic strategy otherwise.
C6_StrategyFollowsDetection ==
    /\ \A proc \in ParentProcs :
           proc.alive =>
               (is_lab_notebook(proc).value <=> HasMarker(proc.cmdline))
    /\ (ext.op = "load" /\ ext.result = "returned") =>
           /\ ext.made.ip = ext.ip
           /\ ext.made.cls = Lab <=> HasMarker(ext.proc.cmdline)
           /\ ext.made.cls = Classic <=> ~HasMarker(ext.proc.cmdline)
           /\ ext.added =>
                  LET list == callbacks[eventsOf[ext.ip]]
                  IN  list[Len(list)] = ext.made

C6_Witness ==
    /\ ext.op = "load"
    /\ ext.added
    /\ ext.proc.cmdline = <<PartPython, PartLabPath>>
    /\ ext.made.cls = Lab

\* C7: a firing script changes a cell's text only if, when it fires, the
\* cell's prompt number equals the ordinal the script carries and the cell's
\* text equals the raw source the script carries.
C7_NoClobber ==
    [][ev'.op = "fire" =>
           \A i \in 1..Len(cells) :
               (i \in DOMAIN cells' /\ cells'[i].text # cells[i].text) =>
                   /\ cells[i].prompt = <<JsNumber(ev'.js.cell_id)>>
                   /\ cells[i].text = JsString(ev'.js.raw_cell)]_vars

C7_Witness ==
    /\ ev.op = "fire"
    /\ ev.changed = {}
    /\ \E i \in 1..Len(cells) :
           /\ cells[i].prompt = <<JsNumber(ev.js.cell_id)>>
           /\ cells[i].text # JsString(ev.js.raw_cell)
           /\ cells[i].text # JsString(ev.js.fmt_cell)

\* C8: whenever some cell shows the script's ordinal and still holds the
\* script's raw source when the script fires, such a cell holds the formatted
\* text afterwards.
C8_MatchingCellFormatted ==
    [][ev'.op = "fire" =>
           LET Matches(i) ==
                   /\ cells[i].prompt = <<JsNumber(ev'.js.cell_id)>>
                   /\ cells[i].text = JsString(ev'.js.raw_cell)
           IN  (\E i \in 1..Len(cells) : Matches(i)) =>
                   \E i \in 1..Len(cells) :
                       /\ Matches(i)
                       /\ i \in DOMAIN cells'
                       /\ cells'[i].text = JsString(ev'.js.fmt_cell)]_vars

\* C10: a firing script changes the text of no cell but the first one in
\* notebook order that shows the script's ordinal, and leaves every prompt
\* number and the number and order of the cells as they were.
C10_FireFrame ==
    [][ev'.op = "fire" =>
           /\ Len(cells') = Len(cells)
           /\ \A i \in 1..Len(cells) :
                  /\ cells'[i].prompt = cells[i].prompt
                  /\ cells'[i].text # cells[i].text =>
                         /\ cells[i].prompt = <<JsNumber(ev'.js.cell_id)>>
                         /\ \A h \in 1..(i - 1) :
                                cells[h].prompt # <<JsNumber(ev'.js.cell_id)>>]_vars

C10_Witness ==
    /\ ev.op = "fire"
    /\ \E i \in ev.changed :
           \E j \in (i + 1)..Len(cells) :
               /\ cells[j].prompt = cells[i].prompt
               /\ cells[j].text = JsString(ev.js.raw_cell)

\* C9: an unload for kernel k leaves every callback that is not a formatter
\* bound to k where it was, in every list; it returns whenever the parent
\* process can be inspected and a formatter bound to k is registered, whatever
\* strategy detection picks now; and when it returns no formatter bound to k
\* is left.
C9_UnloadByKernelOnly ==
    [][ext'.op = "unload" =>
           /\ \A e \in EventManagers :
                  Others(callbacks'[e], ext'.ip) = Others(callbacks[e], ext'.ip)
           /\ (ext'.proc.alive /\ BoundTo(callbacks[eventsOf[ext'.ip]], ext'.ip) # {})
                  => ext'.result = "returned"
           /\ ext'.result = "returned" =>
                  BoundTo(callbacks'[eventsOf[ext'.ip]], ext'.ip) = {}]_vars

C9_Witness ==
    /\ ext.op = "unload"
    /\ ext.result = "returned"
    /\ IsFormatter(ext.removed)
    /\ ext.removed.cls # ext.made.cls
    /\ \E k \in Kernels \ {ext.ip} :
           BoundTo(callbacks[eventsOf[ext.ip]], k) # {}

====
